---- MODULE Spec2Model ----
(***************************************************************************)
(* Newton-Polynomial: the interpolation engine of src/src/utils/math.ts    *)
(* and the application state of App.tsx with its three views.              *)
(*                                                                         *)
(* Numbers.  A JavaScript number is modelled as an exact rational <<n, d>> *)
(* in lowest terms with d > 0, or as one of the three non-finite values    *)
(* Infinity <<1, 0>>, -Infinity <<-1, 0>> and NaN <<0, 0>>.  Rounding of   *)
(* IEEE-754 doubles is not modelled: equalities below are the exact-       *)
(* arithmetic statements.  The sign of zero is not modelled either: every  *)
(* zero divisor of the source is a difference of two equal numbers, which  *)
(* is +0.                                                                  *)
(*                                                                         *)
(* Arrays.  A JavaScript array is a TLA+ sequence; At(a, i) reads the      *)
(* element the source writes a[i] (0-based).                               *)
(***************************************************************************)
EXTENDS Integers, Sequences, FiniteSets, TLC

VARIABLES points, op, args, result, tableBuilds,
          isPlaying, animationProgress, animationSpeed, showLagrange, view

\* The engine call in progress.
call == <<op, args, result, tableBuilds>>

\* The animation state of App.
animation == <<isPlaying, animationProgress, animationSpeed>>

\* The state of App and what it renders.
app == <<points, isPlaying, animationProgress, animationSpeed, showLagrange, view>>

vars == <<points, op, args, result, tableBuilds,
          isPlaying, animationProgress, animationSpeed, showLagrange, view>>

----------------------------------------------------------------------------
(* Bounds of the model *)

\* Largest PointSet drawn from the grid.
MaxN == 3

\* Largest sample count of a curve-generation call.
MaxSamples == 3

----------------------------------------------------------------------------
(* JavaScript numbers *)

NaN == <<0, 0>>

Infinity == <<1, 0>>

IsFinite(a) == a[2] # 0

IsNaN(a) == a[1] = 0 /\ a[2] = 0

Abs(n) == IF n < 0 THEN -n ELSE n

Sign(n) == IF n < 0 THEN -1 ELSE IF n > 0 THEN 1 ELSE 0

RECURSIVE GCD(_, _)
GCD(a, b) == IF b = 0 THEN a ELSE GCD(b, a % b)

\* The rational n/d (d # 0) in lowest terms with a positive denominator.
Rat(n, d) ==
    LET g == GCD(Abs(n), Abs(d))
        s == IF d < 0 THEN -1 ELSE 1
    IN  <<(s * n) \div g, (s * d) \div g>>

Num(n) == <<n, 1>>

Zero == Num(0)

One == Num(1)

\* a + b (over the least common denominator); Infinity + -Infinity is NaN.
Add(a, b) ==
    IF IsFinite(a) /\ IsFinite(b)
    THEN LET g == GCD(a[2], b[2])
         IN  Rat(a[1] * (b[2] \div g) + b[1] * (a[2] \div g), a[2] * (b[2] \div g))
    ELSE IF IsNaN(a) \/ IsNaN(b) THEN NaN
    ELSE IF IsFinite(b) THEN a
    ELSE IF IsFinite(a) \/ a = b THEN b
    ELSE NaN

\* -a
Neg(a) == <<-a[1], a[2]>>

\* a - b
Sub(a, b) == Add(a, Neg(b))

\* a * b (cancelling across before multiplying); Infinity * 0 is NaN.
Mul(a, b) ==
    IF IsFinite(a) /\ IsFinite(b)
    THEN LET g1 == GCD(Abs(a[1]), b[2])
             g2 == GCD(Abs(b[1]), a[2])
         IN  Rat((a[1] \div g1) * (b[1] \div g2), (a[2] \div g2) * (b[2] \div g1))
    ELSE <<Sign(a[1]) * Sign(b[1]), 0>>

\* Division special-casing a zero divisor: the quotient is then 0.
DivOrZero(a, b) ==
    IF IsFinite(a) /\ IsFinite(b)
    THEN IF b[1] # 0 THEN Mul(a, Rat(b[2], b[1])) ELSE Zero
    ELSE NaN

\* a / b: division by zero gives Infinity, -Infinity or NaN (0 / 0), never
\* an error.
Div(a, b) ==
    IF IsNaN(a) \/ IsNaN(b) THEN NaN
    ELSE IF ~IsFinite(b) THEN (IF IsFinite(a) THEN Zero ELSE NaN)
    ELSE IF b[1] = 0 THEN <<Sign(a[1]), 0>>
    ELSE IF IsFinite(a) THEN Mul(a, Rat(b[2], b[1]))
    ELSE <<Sign(a[1]) * Sign(b[1]), 0>>

\* a < b; a comparison with NaN is false.
Less(a, b) ==
    IF IsFinite(a) /\ IsFinite(b)
    THEN a[1] * b[2] < b[1] * a[2]
    ELSE ~IsNaN(a) /\ ~IsNaN(b) /\ a # b /\ (a = Neg(Infinity) \/ b = Infinity)

\* a >= b; a comparison with NaN is false.
GreaterEq(a, b) == ~IsNaN(a) /\ ~IsNaN(b) /\ ~Less(a, b)

\* Math.abs(a)
MathAbs(a) == <<Abs(a[1]), a[2]>>

\* 10^k
RECURSIVE PowerOfTen(_)
PowerOfTen(k) == IF k = 0 THEN 1 ELSE 10 * PowerOfTen(k - 1)

\* The last k decimal digits of v, with leading zeros.
RECURSIVE Digits(_, _)
Digits(v, k) == IF k = 0 THEN "" ELSE Digits(v \div 10, k - 1) \o ToString(v % 10)

\* a.toFixed(digits), digits >= 1: the magnitude rounded to the nearest
\* multiple of 10^-digits (the larger one on a tie), after the sign of a
\* negative number; "NaN", "Infinity" and "-Infinity" for the non-finite.
ToFixed(a, digits) ==
    IF IsNaN(a) THEN "NaN"
    ELSE IF ~IsFinite(a) THEN (IF a[1] < 0 THEN "-Infinity" ELSE "Infinity")
    ELSE LET scaled == (2 * Abs(a[1]) * PowerOfTen(digits) + a[2]) \div (2 * a[2])
         IN  (IF a[1] < 0 THEN "-" ELSE "")
             \o ToString(scaled \div PowerOfTen(digits))
             \o "." \o Digits(scaled % PowerOfTen(digits), digits)

----------------------------------------------------------------------------
(* JavaScript arrays *)

At(a, i) == a[i + 1]

Point(px, py, pid) == [x |-> px, y |-> py, id |-> pid]

\* Math.ceil(a), a finite
Ceil(a) == -((-a[1]) \div a[2])

\* a.slice(0, end), 0 <= end
Slice(a, end) == SubSeq(a, 1, IF end < Len(a) THEN end ELSE Len(a))

\* Insertion of p into the x-sorted sequence s, after the elements not greater.
RECURSIVE InsertByX(_, _)
InsertByX(s, p) ==
    IF s = <<>> \/ ~Less(p.x, s[Len(s)].x)
    THEN Append(s, p)
    ELSE Append(InsertByX(SubSeq(s, 1, Len(s) - 1), p), s[Len(s)])

\* [...points].sort((a, b) => a.x - b.x): ascending x, equal x in the given order.
RECURSIVE SortedPrefix(_, _)
SortedPrefix(pts, k) ==
    IF k = 0 THEN <<>> ELSE InsertByX(SortedPrefix(pts, k - 1), pts[k])

sortedPoints(pts) == SortedPrefix(pts, Len(pts))

----------------------------------------------------------------------------
(* The engine: src/src/utils/math.ts *)

\* Array(n).fill(0).map(() => Array(n).fill(0))
ZeroTable(n) == [i \in 1..n |-> [j \in 1..n |-> Zero]]

\* SeedColumn reading the points in the order of their x,
\* table[i][0] = sorted[i].y.
RECURSIVE SeedColumnSorted(_, _, _)
SeedColumnSorted(table, pts, i) ==
    IF i < Len(pts)
    THEN SeedColumnSorted([table EXCEPT ![i + 1][1] = At(sortedPoints(pts), i).y],
                          pts, i + 1)
    ELSE table

\* for (let i = 0; i < n; i++) table[i][0] = points[i].y
RECURSIVE SeedColumn(_, _, _)
SeedColumn(table, pts, i) ==
    IF i < Len(pts)
    THEN SeedColumn([table EXCEPT ![i + 1][1] = At(pts, i).y], pts, i + 1)
    ELSE table

\* DividedDifference with the numerator reversed,
\* table[i][j-1] - table[i+1][j-1].
DividedDifferenceReversed(table, pts, i, j) ==
    Div(Sub(At(At(table, i), j - 1), At(At(table, i + 1), j - 1)),
        Sub(At(pts, i + j).x, At(pts, i).x))

\* DividedDifference dividing by the distance of adjacent nodes,
\* points[i+1].x - points[i].x.
DividedDifferenceAdjacent(table, pts, i, j) ==
    Div(Sub(At(At(table, i + 1), j - 1), At(At(table, i), j - 1)),
        Sub(At(pts, i + 1).x, At(pts, i).x))

\* table[i][j] = (table[i+1][j-1] - table[i][j-1]) / (points[i+j].x - points[i].x)
DividedDifference(table, pts, i, j) ==
    Div(Sub(At(At(table, i + 1), j - 1), At(At(table, i), j - 1)),
        Sub(At(pts, i + j).x, At(pts, i).x))

\* for (let i = 0; i < n - j; i++) table[i][j] = ...
RECURSIVE FillColumn(_, _, _, _)
FillColumn(table, pts, j, i) ==
    IF i < Len(pts) - j
    THEN FillColumn([table EXCEPT ![i + 1][j + 1] = DividedDifference(table, pts, i, j)],
                    pts, j, i + 1)
    ELSE table

\* for (let j = 1; j < n; j++) ...
RECURSIVE FillTable(_, _, _)
FillTable(table, pts, j) ==
    IF j < Len(pts)
    THEN FillTable(FillColumn(table, pts, j, 0), pts, j + 1)
    ELSE table

calculateDividedDifferences(pts) ==
    IF Len(pts) = 0
    THEN <<>>
    ELSE FillTable(SeedColumn(ZeroTable(Len(pts)), pts, 0), pts, 1)

\* NewtonLoop with the factor of the current node, (x - points[i].x), in place
\* of the preceding node's.
RECURSIVE NewtonLoopCurrentNode(_, _, _, _, _, _)
NewtonLoopCurrentNode(pts, table, x, i, product, res) ==
    IF i < Len(pts)
    THEN LET product2 == Mul(product, Sub(x, At(pts, i).x))
         IN  NewtonLoopCurrentNode(pts, table, x, i + 1, product2,
                                   Add(res, Mul(At(At(table, 0), i), product2)))
    ELSE res

\* for (let i = 1; i < points.length; i++) { product *= ...; result += ... }
RECURSIVE NewtonLoop(_, _, _, _, _, _)
NewtonLoop(pts, table, x, i, product, res) ==
    IF i < Len(pts)
    THEN LET product2 == Mul(product, Sub(x, At(pts, i - 1).x))
         IN  NewtonLoop(pts, table, x, i + 1, product2,
                        Add(res, Mul(At(At(table, 0), i), product2)))
    ELSE res

\* evaluateNewtonPolynomial taking the nodes of the products from the points
\* in ascending x, and the table from the points as passed.
evaluateNewtonPolynomialSortedNodes(pts, x) ==
    IF Len(pts) = 0
    THEN Zero
    ELSE LET table == calculateDividedDifferences(pts)
         IN  NewtonLoop(sortedPoints(pts), table, x, 1, One, At(At(table, 0), 0))

\* evaluateNewtonPolynomial returning 0 for points.length <= 1.
evaluateNewtonPolynomialWideGuard(pts, x) ==
    IF Len(pts) <= 1
    THEN Zero
    ELSE LET table == calculateDividedDifferences(pts)
         IN  NewtonLoop(pts, table, x, 1, One, At(At(table, 0), 0))

evaluateNewtonPolynomial(pts, x) ==
    IF Len(pts) = 0
    THEN Zero
    ELSE LET table == calculateDividedDifferences(pts)
         IN  NewtonLoop(pts, table, x, 1, One, At(At(table, 0), 0))

\* for (let i = 0; i < numPoints; i++) curve.push({x: xMin + i * step, y: ...})
RECURSIVE CurveLoop(_, _, _, _, _, _)
CurveLoop(pts, xMin, step, numPoints, i, curve) ==
    IF i < numPoints
    THEN LET x == Add(xMin, Mul(Num(i), step))
         IN  CurveLoop(pts, xMin, step, numPoints, i + 1,
                       Append(curve, [x |-> x, y |-> evaluateNewtonPolynomial(pts, x)]))
    ELSE curve

\* generatePolynomialCurve with step = (xMax - xMin) / numPoints.
generatePolynomialCurveShortStep(pts, xMin, xMax, numPoints) ==
    IF Len(pts) = 0
    THEN <<>>
    ELSE CurveLoop(pts, xMin, Div(Sub(xMax, xMin), Num(numPoints)), numPoints, 0, <<>>)

generatePolynomialCurve(pts, xMin, xMax, numPoints) ==
    IF Len(pts) = 0
    THEN <<>>
    ELSE CurveLoop(pts, xMin, Div(Sub(xMax, xMin), Num(numPoints - 1)), numPoints, 0, <<>>)

\* The number of tables a call constructs (executions of line 11, the
\* allocation in calculateDividedDifferences), counted along the calls the
\* functions make.
BuildsOfTable(pts) == IF Len(pts) = 0 THEN 0 ELSE 1

\* evaluateNewtonPolynomial calls calculateDividedDifferences once.
BuildsOfEvaluate(pts) == IF Len(pts) = 0 THEN 0 ELSE BuildsOfTable(pts)

\* Every pass of the loop of generatePolynomialCurve calls
\* evaluateNewtonPolynomial.
RECURSIVE CurveLoopBuilds(_, _, _, _)
CurveLoopBuilds(pts, numPoints, i, builds) ==
    IF i < numPoints
    THEN CurveLoopBuilds(pts, numPoints, i + 1, builds + BuildsOfEvaluate(pts))
    ELSE builds

BuildsOfCurve(pts, numPoints) ==
    IF Len(pts) = 0 THEN 0 ELSE CurveLoopBuilds(pts, numPoints, 0, 0)

\* BasisLoop with the denominator reversed, points[j].x - points[i].x.
RECURSIVE BasisLoopReversed(_, _, _, _, _)
BasisLoopReversed(pts, i, x, j, res) ==
    IF j < Len(pts)
    THEN BasisLoopReversed(pts, i, x, j + 1,
                   IF i # j
                   THEN Mul(res, Div(Sub(x, At(pts, j).x), Sub(At(pts, j).x, At(pts, i).x)))
                   ELSE res)
    ELSE res

\* for (let j = 0; j < points.length; j++) if (i !== j) result *= ...
RECURSIVE BasisLoop(_, _, _, _, _)
BasisLoop(pts, i, x, j, res) ==
    IF j < Len(pts)
    THEN BasisLoop(pts, i, x, j + 1,
                   IF i # j
                   THEN Mul(res, Div(Sub(x, At(pts, j).x), Sub(At(pts, i).x, At(pts, j).x)))
                   ELSE res)
    ELSE res

lagrangeBasis(pts, i, x) == BasisLoop(pts, i, x, 0, One)

\* for (let i = 0; i < points.length; i++) result += points[i].y * lagrangeBasis(...)
RECURSIVE LagrangeLoop(_, _, _, _)
LagrangeLoop(pts, x, i, res) ==
    IF i < Len(pts)
    THEN LagrangeLoop(pts, x, i + 1, Add(res, Mul(At(pts, i).y, lagrangeBasis(pts, i, x))))
    ELSE res

evaluateLagrangePolynomial(pts, x) ==
    IF Len(pts) = 0
    THEN Zero
    ELSE LagrangeLoop(pts, x, 0, Zero)

\* CoefficientsLoop reading the diagonal, table[i][i].
RECURSIVE CoefficientsLoopDiagonal(_, _, _, _)
CoefficientsLoopDiagonal(pts, table, i, coefficients) ==
    IF i < Len(pts)
    THEN CoefficientsLoopDiagonal(pts, table, i + 1, Append(coefficients, At(At(table, i), i)))
    ELSE coefficients

\* for (let i = 0; i < points.length; i++) coefficients.push(table[0][i])
RECURSIVE CoefficientsLoop(_, _, _, _)
CoefficientsLoop(pts, table, i, coefficients) ==
    IF i < Len(pts)
    THEN CoefficientsLoop(pts, table, i + 1, Append(coefficients, At(At(table, 0), i)))
    ELSE coefficients

getNewtonCoefficients(pts) ==
    IF Len(pts) = 0
    THEN <<>>
    ELSE CoefficientsLoop(pts, calculateDividedDifferences(pts), 0, <<>>)

\* The exponent of the formatter's epsilon, 1e-10.
EpsilonExponent == 10

\* num * 10^e < den, for naturals, without forming 10^e.
RECURSIVE ScaledBelow(_, _, _)
ScaledBelow(num, den, e) ==
    IF e = 0 THEN num < den ELSE ScaledBelow(num, (den + 9) \div 10, e - 1)

\* Math.abs(a) < 1e-10; false for NaN and the infinities.
BelowEpsilon(a) == IsFinite(a) /\ ScaledBelow(Abs(a[1]), a[2], EpsilonExponent)

\* A string built from pieces is modelled by the sequence of its pieces
\* where a property looks inside it; Concat is the string itself.
RECURSIVE Concat(_)
Concat(pieces) ==
    IF pieces = <<>> THEN "" ELSE pieces[1] \o Concat(Tail(pieces))

\* strings.join(separator)
RECURSIVE Join(_, _)
Join(strings, separator) ==
    IF strings = <<>> THEN ""
    ELSE IF Len(strings) = 1 THEN strings[1]
    ELSE strings[1] \o separator \o Join(Tail(strings), separator)

\* `(x - ${xVal.toFixed(2)})` for xVal >= 0, else `(x + ${(-xVal).toFixed(2)})`
Factor(xVal) ==
    IF GreaterEq(xVal, Zero)
    THEN "(x - " \o ToFixed(xVal, 2) \o ")"
    ELSE "(x + " \o ToFixed(Neg(xVal), 2) \o ")"

\* for (let j = 0; j < i; j++) term += factor of points[j].x
RECURSIVE FactorLoop(_, _, _, _)
FactorLoop(pts, i, j, term) ==
    IF j < i
    THEN FactorLoop(pts, i, j + 1, Append(term, Factor(At(pts, j).x)))
    ELSE term

\* `${sign}${coeff.toFixed(4)}` with sign = coeff >= 0 ? '+' : ''
SignedCoefficient(coeff) ==
    (IF GreaterEq(coeff, Zero) THEN "+" ELSE "") \o ToFixed(coeff, 4)

\* TermsLoop testing coeff < 1e-10 without Math.abs.
RECURSIVE TermsLoopSigned(_, _, _, _)
TermsLoopSigned(pts, table, i, terms) ==
    IF i < Len(pts)
    THEN LET coeff == At(At(table, 0), i)
         IN  IF BelowEpsilon(coeff) \/ Less(coeff, Zero)
             THEN TermsLoopSigned(pts, table, i + 1, terms)
             ELSE TermsLoopSigned(pts, table, i + 1,
                      Append(terms, FactorLoop(pts, i, 0, <<SignedCoefficient(coeff)>>)))
    ELSE terms

\* for (let i = 1; i < points.length; i++) { if (Math.abs(coeff) < 1e-10)
\* continue; ...; terms.push(term) }: a term is the sequence of its pieces,
\* the signed coefficient and then the factors.
RECURSIVE TermsLoop(_, _, _, _)
TermsLoop(pts, table, i, terms) ==
    IF i < Len(pts)
    THEN LET coeff == At(At(table, 0), i)
         IN  IF BelowEpsilon(coeff)
             THEN TermsLoop(pts, table, i + 1, terms)
             ELSE TermsLoop(pts, table, i + 1,
                      Append(terms, FactorLoop(pts, i, 0, <<SignedCoefficient(coeff)>>)))
    ELSE terms

\* The array `terms` of formatNewtonPolynomial when it returns (two points
\* or more): the constant term first.
FormatTerms(pts) ==
    LET table == calculateDividedDifferences(pts)
    IN  TermsLoop(pts, table, 1, << <<ToFixed(At(At(table, 0), 0), 4)>> >>)

formatNewtonPolynomial(pts) ==
    IF Len(pts) = 0 THEN "P(x) = 0"
    ELSE IF Len(pts) = 1 THEN "P(x) = " \o ToFixed(At(pts, 0).y, 4)
    ELSE LET terms == FormatTerms(pts)
         IN  "P(x) = " \o Join([k \in 1..Len(terms) |-> Concat(terms[k])], " ")

\* DuplicateLoop remembering only the x of the preceding point.
RECURSIVE DuplicateLoopAdjacent(_, _, _)
DuplicateLoopAdjacent(pts, k, xValues) ==
    IF k < Len(pts)
    THEN IF At(pts, k).x \in xValues
         THEN TRUE
         ELSE DuplicateLoopAdjacent(pts, k + 1, {At(pts, k).x})
    ELSE FALSE

\* for (const point of points) { if (xValues.has(point.x)) return true; xValues.add(point.x) }
RECURSIVE DuplicateLoop(_, _, _)
DuplicateLoop(pts, k, xValues) ==
    IF k < Len(pts)
    THEN IF At(pts, k).x \in xValues
         THEN TRUE
         ELSE DuplicateLoop(pts, k + 1, xValues \cup {At(pts, k).x})
    ELSE FALSE

hasDuplicateX(pts) == DuplicateLoop(pts, 0, {})

\* The default of arePointsTooClose's threshold, 0.01.
DefaultThreshold == Rat(1, 100)

\* arePointsTooClose comparing with <= in place of <.
arePointsTooCloseInclusive(pts, threshold) ==
    \E i \in 0..(Len(pts) - 1) : \E j \in (i + 1)..(Len(pts) - 1) :
        ~Less(threshold, MathAbs(Sub(At(pts, i).x, At(pts, j).x)))

\* for i, for j = i + 1: if (Math.abs(points[i].x - points[j].x) < threshold) return true
arePointsTooClose(pts, threshold) ==
    \E i \in 0..(Len(pts) - 1) : \E j \in (i + 1)..(Len(pts) - 1) :
        Less(MathAbs(Sub(At(pts, i).x, At(pts, j).x)), threshold)

\* j > 0 ? `f[x${i},...,x${i+j}]` : `f[x${i}]`
CellFormula(i, j) ==
    IF j > 0
    THEN "f[x" \o ToString(i) \o ",...,x" \o ToString(i + j) \o "]"
    ELSE "f[x" \o ToString(i) \o "]"

\* CellsRow over every column of the table, j < points.length.
RECURSIVE CellsRowFull(_, _, _, _, _)
CellsRowFull(pts, table, i, j, row) ==
    IF j < Len(pts)
    THEN CellsRowFull(pts, table, i, j + 1,
                  Append(row, [value |-> At(At(table, i), j), level |-> j,
                               rowIndex |-> i, formula |-> CellFormula(i, j)]))
    ELSE row

\* for (let j = 0; j < points.length - i; j++) row.push({value, level, rowIndex, formula})
RECURSIVE CellsRow(_, _, _, _, _)
CellsRow(pts, table, i, j, row) ==
    IF j < Len(pts) - i
    THEN CellsRow(pts, table, i, j + 1,
                  Append(row, [value |-> At(At(table, i), j), level |-> j,
                               rowIndex |-> i, formula |-> CellFormula(i, j)]))
    ELSE row

\* for (let i = 0; i < points.length; i++) cells.push(row)
RECURSIVE CellsLoop(_, _, _, _)
CellsLoop(pts, table, i, cells) ==
    IF i < Len(pts)
    THEN CellsLoop(pts, table, i + 1, Append(cells, CellsRow(pts, table, i, 0, <<>>)))
    ELSE cells

getDividedDifferenceCells(pts) ==
    IF Len(pts) = 0
    THEN <<>>
    ELSE CellsLoop(pts, calculateDividedDifferences(pts), 0, <<>>)

----------------------------------------------------------------------------
(* The views: src/src/components.  Each view sorts a copy of the PointSet, *)
(* keeps the prefix the animation has revealed and hands it to the engine. *)
(* A view is modelled by the PointSets it passes to the engine (`passed`,  *)
(* in the order of the calls) and by what it displays of the results; the  *)
(* 300-sample curves of the graph are not recomputed here.                 *)

\* visibleCount with Math.floor in place of Math.ceil.
visibleCountFloor(pts, progress) ==
    LET product == Mul(Num(Len(sortedPoints(pts))), progress)
    IN  product[1] \div product[2]

\* Math.ceil(sortedPoints.length * animationProgress)
visibleCount(pts, progress) == Ceil(Mul(Num(Len(sortedPoints(pts))), progress))

\* The last visibleCount of the sorted points in place of the first.
visiblePointsFromEnd(pts, progress) ==
    SubSeq(sortedPoints(pts), Len(pts) - visibleCount(pts, progress) + 1, Len(pts))

\* sortedPoints.slice(0, visibleCount)
visiblePoints(pts, progress) == Slice(sortedPoints(pts), visibleCount(pts, progress))

\* <td> of a value: value.toFixed(4)
ValueCell(value) == [kind |-> "value", text |-> ToFixed(value, 4)]

\* <td /> of the "empty cells for triangular structure"
EmptyCell == [kind |-> "empty", text |-> ""]

\* The cells of row rowIdx after its index and its x:
\* table[rowIdx]?.map(value => <td>), then Array.from({length: rowIdx}) of <td />.
TableRow(table, rowIdx) ==
    [k \in 1..Len(At(table, rowIdx)) |-> ValueCell(At(table, rowIdx)[k])]
        \o [k \in 1..rowIdx |-> EmptyCell]

\* The table view: one row per visible point (no row, and a hint in place of
\* the table, when no point is visible).
DividedDifferencesTable(pts, progress) ==
    LET visible == visiblePoints(pts, progress)
        table == calculateDividedDifferences(visible)
    IN  [passed |-> <<visible>>,
         rows |-> [k \in 1..Len(visible) |-> TableRow(table, k - 1)]]

\* The graph view: the markers of the visible points; the Newton curve, and
\* the Lagrange curve when it is switched on, for two visible points or more.
InteractiveGraph(pts, progress, lagrange) ==
    LET visible == visiblePoints(pts, progress)
    IN  [markers |-> visible,
         passed |-> (IF Len(visible) >= 2 THEN <<visible>> ELSE <<>>)
                    \o (IF lagrange /\ Len(visible) >= 2 THEN <<visible>> ELSE <<>>)]

\* The formula view: the coefficients of the visible points.
MathDisplay(pts, progress) ==
    LET visible == visiblePoints(pts, progress)
    IN  [passed |-> <<visible>>, coefficients |-> getNewtonCoefficients(visible)]

\* App's warnings, computed on every render from the whole PointSet.
Warnings(pts) ==
    (IF hasDuplicateX(pts) THEN <<"Duplicate x-values detected!">> ELSE <<>>)
    \o (IF arePointsTooClose(pts, DefaultThreshold)
        THEN <<"Some points are very close together.">> ELSE <<>>)

\* What App renders from its state.
Render(pts, progress, lagrange) ==
    [warnings |-> Warnings(pts),
     table |-> DividedDifferencesTable(pts, progress),
     graph |-> InteractiveGraph(pts, progress, lagrange),
     formula |-> MathDisplay(pts, progress)]

----------------------------------------------------------------------------
(* The inputs: PointSets, click locations, import files, presets *)

\* The PointSet the application starts with.
InitialPoints ==
    << Point(Num(-2), Num(4), "init-1"),
       Point(Num(-1), Num(1), "init-2"),
       Point(Num(0), Num(0), "init-3"),
       Point(Num(1), Num(1), "init-4"),
       Point(Num(2), Num(4), "init-5") >>

\* Two points closer than the default threshold 0.01 (x = 1.0 and x = 1.005).
ClosePoints ==
    << Point(Num(1), Num(0), "close-1"),
       Point(Rat(201, 200), Num(2), "close-2") >>

\* Two points whose distance is the default threshold 0.01 exactly.
ThresholdPoints ==
    << Point(Rat(101, 100), Num(2), "edge-1"),
       Point(Num(1), Num(-1), "edge-2") >>

\* The same point twice.
TwicePoints ==
    << Point(Num(1), Num(2), "twice-1"),
       Point(Num(1), Num(2), "twice-2") >>

\* Three points on a line, not in the order of their x.
LinePoints ==
    << Point(Num(2), Num(-3), "line-1"),
       Point(Num(-1), Num(3), "line-2"),
       Point(Num(1), Num(-1), "line-3") >>

\* An array whose first record has no id: [{"x": 0, "y": 1}, {"x": 1, "y": 3, "id": "b"}].
NoIdPoints ==
    << [x |-> Num(0), y |-> Num(1)],
       Point(Num(1), Num(3), "b") >>

\* An import file: whether JSON.parse accepts its text, whether the parsed
\* value is an array, and the parsed value.
File(isJson, isArray, v) == [parses |-> isJson, array |-> isArray, value |-> v]

ImportFiles ==
    { File(FALSE, FALSE, <<>>),
      File(TRUE, FALSE, <<>>),
      File(TRUE, TRUE, InitialPoints),
      File(TRUE, TRUE, ClosePoints),
      File(TRUE, TRUE, ThresholdPoints),
      File(TRUE, TRUE, TwicePoints),
      File(TRUE, TRUE, LinePoints),
      File(TRUE, TRUE, NoIdPoints) }

\* Coordinates a click on the graph can report.
XValues == {Num(-1), Num(0), Num(2)}

YValues == {Num(-1), Num(0), Num(2)}

\* The locations clicks report: the grid, and two locations beside the grid
\* abscissa -1, one 0.05 from it and one exactly 0.1 from it.
ClickLocations ==
    (XValues \X YValues) \cup {<<Rat(-19, 20), Num(0)>>, <<Rat(-9, 10), Num(0)>>}

\* The PointSets clicks extend in the model: those lying on the click grid.
OnGrid(pts) == \A k \in 1..Len(pts) : pts[k].x \in XValues /\ pts[k].y \in YValues

XsOf(pts) == { pts[i].x : i \in 1..Len(pts) }

\* Query abscissae: every node of the PointSet, and some that are no node.
Queries(pts) == XsOf(pts) \cup {Rat(3, 2), Num(-3), Rat(1, 2)}

\* Thresholds passed to arePointsTooClose: the default and two grid distances.
Thresholds == {DefaultThreshold, Num(1), Num(2)}

\* Ends of the ranges passed to generatePolynomialCurve.
RangeStarts == {Num(-1), Num(0)}

RangeEnds == {Num(0), Num(2)}

\* The functions of the presets whose values are rational: x * x, Math.abs
\* and 2 * x + 1 (the presets of sin, cos, exp, log are left out, and so are
\* the two largest, Cubic and Runge).
Func(name, x) ==
    CASE name = "Quadratic" -> Mul(x, x)
      [] name = "Absolute Value" -> MathAbs(x)
      [] name = "Simple Linear" -> Add(Mul(Num(2), x), One)

\* for (let i = 0; i < count; i++) points.push({x: xMin + i * step, y: func(x), id})
RECURSIVE GenerateLoop(_, _, _, _, _, _)
GenerateLoop(name, xMin, step, count, i, pts) ==
    IF i < count
    THEN LET x == Add(xMin, Mul(Num(i), step))
         IN  GenerateLoop(name, xMin, step, count, i + 1,
                          Append(pts, Point(x, Func(name, x), "preset-" \o ToString(i))))
    ELSE pts

generatePoints(name, xMin, xMax, count) ==
    GenerateLoop(name, xMin, Div(Sub(xMax, xMin), Num(count - 1)), count, 0, <<>>)

presetFunctions ==
    { [name |-> "Quadratic", points |-> generatePoints("Quadratic", Num(-3), Num(3), 7)],
      [name |-> "Absolute Value", points |-> generatePoints("Absolute Value", Num(-3), Num(3), 7)],
      [name |-> "Simple Linear", points |-> generatePoints("Simple Linear", Num(-2), Num(2), 5)] }

\* Outcomes of Math.random(): per point the draw of its x and the draw of its
\* y.  The second sequence draws the same x twice.
RandomDraws ==
    { << <<Rat(7, 10), Rat(1, 10)>>, <<Rat(1, 5), Rat(1, 2)>>,
         <<Rat(1, 2), Rat(9, 10)>>, <<Zero, Rat(3, 10)>> >>,
      << <<Rat(3, 5), Rat(1, 2)>>, <<Rat(3, 10), Rat(7, 10)>>,
         <<Rat(3, 10), Rat(1, 5)>>, <<Rat(9, 10), Rat(2, 5)>> >> }

\* for (let i = 0; i < count; i++) points.push({x: xMin + Math.random() *
\* (xMax - xMin), y: -5 + Math.random() * 10, id})
RECURSIVE RandomLoop(_, _, _, _, _)
RandomLoop(draws, xMin, xMax, i, pts) ==
    IF i < Len(draws)
    THEN RandomLoop(draws, xMin, xMax, i + 1,
             Append(pts, Point(Add(xMin, Mul(At(draws, i)[1], Sub(xMax, xMin))),
                               Add(Num(-5), Mul(At(draws, i)[2], Num(10))),
                               "random-" \o ToString(i))))
    ELSE pts

\* generateRandomPoints(count) with count = draws.length and the default
\* range: the drawn points sorted by x.
generateRandomPoints(draws) == sortedPoints(RandomLoop(draws, Num(-5), Num(5), 0, <<>>))

\* Speeds the slider is set to, of its range 0.5 .. 3: the initial speed and
\* the fastest.
Speeds == {One, Num(3)}

----------------------------------------------------------------------------
(* The PointSet's handlers.  Every handler that sets state ends with App   *)
(* rendering again.                                                        *)

\* sortedPoints.find(p => Math.abs(p.x - cx) < 0.1 && Math.abs(p.y - cy) < 0.1)
ExistingPoint(sorted, cx, cy) ==
    \E k \in 1..Len(sorted) :
        /\ Less(MathAbs(Sub(sorted[k].x, cx)), Rat(1, 10))
        /\ Less(MathAbs(Sub(sorted[k].y, cy)), Rat(1, 10))

\* handleClick taking a point for existing when it is near in x or in y.
handleClickEitherNear(pts, cx, cy) ==
    IF \E k \in 1..Len(pts) :
           \/ Less(MathAbs(Sub(pts[k].x, cx)), Rat(1, 10))
           \/ Less(MathAbs(Sub(pts[k].y, cy)), Rat(1, 10))
    THEN pts
    ELSE Append(pts, Point(cx, cy, "point-" \o ToString(Len(pts) + 1)))

\* InteractiveGraph.handleClick: the PointSet after a click at (cx, cy), which
\* appends a point with a fresh id unless it hits an existing point (a click
\* event that reports no location changes nothing and is left out).  The id
\* `point-<time>-<random>` is modelled by the position of the point, which no
\* other point of the PointSet has.
handleClick(pts, cx, cy) ==
    IF ExistingPoint(sortedPoints(pts), cx, cy)
    THEN pts
    ELSE Append(pts, Point(cx, cy, "point-" \o ToString(Len(pts) + 1)))

\* A click on the graph.  The model bounds the clicks: at most MaxN points,
\* and none once a point lies off the grid.
HandleClick ==
    /\ op = "idle"
    /\ Len(points) < MaxN
    /\ OnGrid(points)
    /\ \E click \in ClickLocations : points' = handleClick(points, click[1], click[2])
    /\ view' = Render(points', animationProgress, showLagrange)
    /\ UNCHANGED <<call, animation, showLagrange>>

\* A double-click on the marker of a visible point: Plot is given onClick
\* only, so each of the two clicks reaches handleClick with the coordinates
\* of the marker.
HandleDoubleClick ==
    /\ op = "idle"
    /\ \E k \in 1..Len(visiblePoints(points, animationProgress)) :
        LET marker == visiblePoints(points, animationProgress)[k]
        IN  /\ points' = handleClick(handleClick(points, marker.x, marker.y),
                                     marker.x, marker.y)
            /\ op' = "doubleClick"
            /\ args' = <<marker>>
    /\ result' = <<>>
    /\ tableBuilds' = 0
    /\ view' = Render(points', animationProgress, showLagrange)
    /\ UNCHANGED <<animation, showLagrange>>

\* ControlPanel.handlePresetSelect
HandlePresetSelect ==
    /\ op = "idle"
    /\ \E preset \in presetFunctions : points' = preset.points
    /\ view' = Render(points', animationProgress, showLagrange)
    /\ UNCHANGED <<call, animation, showLagrange>>

\* ControlPanel.handleRandomPoints
HandleRandomPoints ==
    /\ op = "idle"
    /\ \E draws \in RandomDraws : points' = generateRandomPoints(draws)
    /\ view' = Render(points', animationProgress, showLagrange)
    /\ UNCHANGED <<call, animation, showLagrange>>

\* handleClearPoints with the warnings kept from the previous render.
HandleClearPointsStale ==
    /\ op = "idle"
    /\ points' = <<>>
    /\ view' = [Render(points', animationProgress, showLagrange)
                   EXCEPT !.warnings = view.warnings]
    /\ UNCHANGED <<call, animation, showLagrange>>

\* ControlPanel.handleClearPoints
HandleClearPoints ==
    /\ op = "idle"
    /\ points' = <<>>
    /\ view' = Render(points', animationProgress, showLagrange)
    /\ UNCHANGED <<call, animation, showLagrange>>

\* ControlPanel.handleImport: the file replaces the PointSet when it parses
\* to an array; otherwise the PointSet stays.
HandleImport ==
    /\ op = "idle"
    /\ \E file \in ImportFiles :
        IF file.parses /\ file.array
        THEN points' = file.value
        ELSE UNCHANGED points
    /\ view' = Render(points', animationProgress, showLagrange)
    /\ UNCHANGED <<call, animation, showLagrange>>

----------------------------------------------------------------------------
(* The animation's handlers: App.tsx *)

\* The callback storing next as it is when it stops the animation.
TickUnclamped ==
    /\ isPlaying
    /\ Len(points) # 0
    /\ animationProgress' = Add(animationProgress, Mul(Rat(1, 50), animationSpeed))
    /\ isPlaying' = ~GreaterEq(animationProgress', One)
    /\ view' = Render(points, animationProgress', showLagrange)
    /\ UNCHANGED <<points, call, animationSpeed, showLagrange>>

\* The callback stopping the animation only when next is above 1.
TickStoppingAboveOne ==
    /\ isPlaying
    /\ Len(points) # 0
    /\ LET next == Add(animationProgress, Mul(Rat(1, 50), animationSpeed))
       IN  /\ animationProgress' = IF GreaterEq(next, One) THEN One ELSE next
           /\ isPlaying' = ~Less(One, next)
    /\ view' = Render(points, animationProgress', showLagrange)
    /\ UNCHANGED <<points, call, animationSpeed, showLagrange>>

\* The callback of setInterval, installed while isPlaying and the PointSet is
\* not empty.
Tick ==
    /\ isPlaying
    /\ Len(points) # 0
    /\ LET next == Add(animationProgress, Mul(Rat(1, 50), animationSpeed))
       IN  IF GreaterEq(next, One)
           THEN animationProgress' = One /\ isPlaying' = FALSE
           ELSE animationProgress' = next /\ UNCHANGED isPlaying
    /\ view' = Render(points, animationProgress', showLagrange)
    /\ UNCHANGED <<points, call, animationSpeed, showLagrange>>

\* handlePlayPause flipping isPlaying whatever the progress.
HandlePlayPauseFlipping ==
    /\ Len(points) # 0
    /\ isPlaying' = ~isPlaying
    /\ UNCHANGED animationProgress
    /\ view' = Render(points, animationProgress', showLagrange)
    /\ UNCHANGED <<points, call, animationSpeed, showLagrange>>

\* App.handlePlayPause (the button is disabled while the PointSet is empty)
HandlePlayPause ==
    /\ Len(points) # 0
    /\ IF GreaterEq(animationProgress, One)
       THEN animationProgress' = Zero /\ isPlaying' = TRUE
       ELSE isPlaying' = ~isPlaying /\ UNCHANGED animationProgress
    /\ view' = Render(points, animationProgress', showLagrange)
    /\ UNCHANGED <<points, call, animationSpeed, showLagrange>>

\* App.handleReset (the button is disabled while the PointSet is empty)
HandleReset ==
    /\ Len(points) # 0
    /\ animationProgress' = Zero
    /\ isPlaying' = FALSE
    /\ view' = Render(points, animationProgress', showLagrange)
    /\ UNCHANGED <<points, call, animationSpeed, showLagrange>>

\* onSpeedChange = setAnimationSpeed
HandleSpeedChange ==
    /\ \E speed \in Speeds : animationSpeed' = speed
    /\ UNCHANGED <<points, call, isPlaying, animationProgress, showLagrange, view>>

\* onToggleLagrange
HandleToggleLagrange ==
    /\ showLagrange' = ~showLagrange
    /\ view' = Render(points, animationProgress, showLagrange')
    /\ UNCHANGED <<points, call, animation>>

----------------------------------------------------------------------------
(* The engine's calls: the caller passes the current PointSet *)

Init ==
    /\ points = InitialPoints
    /\ op = "idle"
    /\ args = <<>>
    /\ result = <<>>
    /\ tableBuilds = 0
    /\ isPlaying = FALSE
    /\ animationProgress = One
    /\ animationSpeed = One
    /\ showLagrange = FALSE
    /\ view = Render(InitialPoints, One, FALSE)

CallEvaluateNewton ==
    /\ op = "idle"
    /\ \E x \in Queries(points) :
        /\ op' = "evaluateNewtonPolynomial"
        /\ args' = <<x>>
        /\ result' = evaluateNewtonPolynomial(points, x)
    /\ tableBuilds' = BuildsOfEvaluate(points)
    /\ UNCHANGED app

CallEvaluateLagrange ==
    /\ op = "idle"
    /\ \E x \in Queries(points) :
        /\ op' = "evaluateLagrangePolynomial"
        /\ args' = <<x>>
        /\ result' = evaluateLagrangePolynomial(points, x)
    /\ tableBuilds' = 0
    /\ UNCHANGED app

\* CallDividedDifferences sorting the caller's array in place,
\* points.sort((a, b) => a.x - b.x), before it fills the table.
CallDividedDifferencesSorting ==
    /\ op = "idle"
    /\ op' = "calculateDividedDifferences"
    /\ args' = <<>>
    /\ points' = sortedPoints(points)
    /\ result' = calculateDividedDifferences(points')
    /\ tableBuilds' = BuildsOfTable(points)
    /\ UNCHANGED <<animation, showLagrange, view>>

CallDividedDifferences ==
    /\ op = "idle"
    /\ op' = "calculateDividedDifferences"
    /\ args' = <<>>
    /\ result' = calculateDividedDifferences(points)
    /\ tableBuilds' = BuildsOfTable(points)
    /\ UNCHANGED app

CallNewtonCoefficients ==
    /\ op = "idle"
    /\ op' = "getNewtonCoefficients"
    /\ args' = <<>>
    /\ result' = getNewtonCoefficients(points)
    /\ tableBuilds' = BuildsOfTable(points)
    /\ UNCHANGED app

CallHasDuplicateX ==
    /\ op = "idle"
    /\ op' = "hasDuplicateX"
    /\ args' = <<>>
    /\ result' = hasDuplicateX(points)
    /\ tableBuilds' = 0
    /\ UNCHANGED app

CallPointsTooClose ==
    /\ op = "idle"
    /\ \E threshold \in Thresholds :
        /\ op' = "arePointsTooClose"
        /\ args' = <<threshold>>
        /\ result' = arePointsTooClose(points, threshold)
    /\ tableBuilds' = 0
    /\ UNCHANGED app

CallPolynomialCurve ==
    /\ op = "idle"
    /\ \E xMin \in RangeStarts, xMax \in RangeEnds, numPoints \in 1..MaxSamples :
        /\ op' = "generatePolynomialCurve"
        /\ args' = <<xMin, xMax, numPoints>>
        /\ result' = generatePolynomialCurve(points, xMin, xMax, numPoints)
        /\ tableBuilds' = BuildsOfCurve(points, numPoints)
    /\ UNCHANGED app

\* The call returns the string; the array `terms` it was joined from is kept
\* beside it.
CallFormatNewtonPolynomial ==
    /\ op = "idle"
    /\ op' = "formatNewtonPolynomial"
    /\ args' = <<>>
    /\ result' = [text |-> formatNewtonPolynomial(points),
                  terms |-> IF Len(points) >= 2 THEN FormatTerms(points) ELSE <<>>]
    /\ tableBuilds' = IF Len(points) >= 2 THEN BuildsOfTable(points) ELSE 0
    /\ UNCHANGED app

CallDividedDifferenceCells ==
    /\ op = "idle"
    /\ op' = "getDividedDifferenceCells"
    /\ args' = <<>>
    /\ result' = getDividedDifferenceCells(points)
    /\ tableBuilds' = BuildsOfTable(points)
    /\ UNCHANGED app

\* The caller consumes the returned value.
Return ==
    /\ op # "idle"
    /\ op' = "idle"
    /\ args' = <<>>
    /\ result' = <<>>
    /\ tableBuilds' = 0
    /\ UNCHANGED app

\* The engine under every PointSet the handlers produce; the animation rests.
Next ==
    \/ HandleClick
    \/ HandleDoubleClick
    \/ HandlePresetSelect
    \/ HandleRandomPoints
    \/ HandleClearPoints
    \/ HandleImport
    \/ CallEvaluateNewton
    \/ CallEvaluateLagrange
    \/ CallDividedDifferences
    \/ CallNewtonCoefficients
    \/ CallHasDuplicateX
    \/ CallPointsTooClose
    \/ CallPolynomialCurve
    \/ CallFormatNewtonPolynomial
    \/ CallDividedDifferenceCells
    \/ Return

Spec == Init /\ [][Next]_vars

\* The application: the animation and the views, with PointSets replaced as a
\* whole (the clicks are exercised by Spec).
NextApp ==
    \/ HandlePresetSelect
    \/ HandleRandomPoints
    \/ HandleClearPoints
    \/ HandleImport
    \/ Tick
    \/ HandlePlayPause
    \/ HandleReset
    \/ HandleSpeedChange
    \/ HandleToggleLagrange

SpecApp == Init /\ [][NextApp]_vars

\* A run of the animation left to itself: Play is pressed while the animation
\* is not playing, and while it is playing nobody presses Play/Pause or
\* Reset and the PointSet is not emptied.
PressPlay == ~isPlaying /\ HandlePlayPause

ResetAtRest == ~isPlaying /\ HandleReset

ClearAtRest == ~isPlaying /\ HandleClearPoints

ImportKeepingPoints == HandleImport /\ (isPlaying => Len(points') # 0)

NextRun ==
    \/ HandlePresetSelect
    \/ HandleRandomPoints
    \/ ClearAtRest
    \/ ImportKeepingPoints
    \/ Tick
    \/ PressPlay
    \/ ResetAtRest
    \/ HandleSpeedChange
    \/ HandleToggleLagrange

\* The effect installs the interval while isPlaying and the PointSet is not
\* empty: Tick is enabled exactly then, and every Tick changes the state.
TimerInstalled == isPlaying /\ Len(points) # 0

\* setInterval calls the callback every 50 ms for as long as it is installed:
\* weak fairness of Tick, with its enabling condition written out.
TickFairness == <>[]TimerInstalled => []<><<Tick>>_vars

SpecRun == Init /\ [][NextRun]_vars /\ TickFairness

----------------------------------------------------------------------------
(* Vocabulary of the properties *)

\* The size of the PointSet (no operator below may take a parameter named n).
n == Len(points)

xOf(k) == At(points, k).x

yOf(k) == At(points, k).y

\* Two different positions of the PointSet hold the same x.
SharesX(pts) ==
    \E i \in 1..Len(pts), j \in 1..Len(pts) : i # j /\ pts[i].x = pts[j].x

DistinctX(pts) == ~SharesX(pts)

\* The cells of the triangle: row i holds columns 0..n-1-i.
Triangle == { c \in (0..(n - 1)) \X (0..(n - 1)) : c[1] + c[2] <= n - 1 }

----------------------------------------------------------------------------
(* C1..C4 *)

\* C1: for a PointSet with pairwise distinct x, evaluateNewtonPolynomial at
\* the x of any point of the set returns that point's y.
C1_NewtonInterpolates ==
    (op = "evaluateNewtonPolynomial" /\ DistinctX(points))
        => \A k \in 0..(n - 1) : args[1] = xOf(k) => result = yOf(k)

\* C1 witness: the polynomial of three points with distinct x, passed out of
\* x order, evaluated at its last node.
C1_Witness ==
    /\ op = "evaluateNewtonPolynomial"
    /\ n = 3
    /\ DistinctX(points)
    /\ Less(xOf(1), xOf(0))
    /\ args[1] = xOf(2)
    /\ result = yOf(2)
    /\ yOf(2) # yOf(0)

\* C2: for a PointSet with pairwise distinct x and at least two points, the
\* Newton and the Lagrange evaluators return the same value at every query x.
C2_NewtonEqualsLagrange ==
    (n >= 2 /\ DistinctX(points))
        => /\ op = "evaluateNewtonPolynomial"
                => result = evaluateLagrangePolynomial(points, args[1])
           /\ op = "evaluateLagrangePolynomial"
                => result = evaluateNewtonPolynomial(points, args[1])

\* C2 witness: a Lagrange evaluation of three points with distinct x at a
\* query that is none of their nodes, with a value that is no point's y.
C2_Witness ==
    /\ op = "evaluateLagrangePolynomial"
    /\ n = 3
    /\ DistinctX(points)
    /\ args[1] \notin XsOf(points)
    /\ \A k \in 0..(n - 1) : result # yOf(k)
    /\ result = evaluateNewtonPolynomial(points, args[1])

\* C3: calculateDividedDifferences returns the empty table for no points and
\* otherwise n rows with table[i][0] = y_i and, for j in 1..n-1 and i in
\* 0..n-1-j, table[i][j] = (table[i+1][j-1] - table[i][j-1]) / (x_{i+j} - x_i).
C3_TableRecurrence ==
    op = "calculateDividedDifferences"
        => /\ n = 0 => result = <<>>
           /\ n >= 1 =>
                /\ Len(result) = n
                /\ \A i \in 0..(n - 1) : At(At(result, i), 0) = yOf(i)
                /\ \A j \in 1..(n - 1) : \A i \in 0..(n - 1 - j) :
                     At(At(result, i), j) =
                        Div(Sub(At(At(result, i + 1), j - 1), At(At(result, i), j - 1)),
                            Sub(xOf(i + j), xOf(i)))

\* C3 witness: a table of three points with distinct, unevenly spaced x whose
\* second divided difference is finite and not zero.
C3_Witness ==
    /\ op = "calculateDividedDifferences"
    /\ n = 3
    /\ DistinctX(points)
    /\ Sub(xOf(2), xOf(1)) # Sub(xOf(1), xOf(0))
    /\ IsFinite(At(At(result, 0), 2))
    /\ At(At(result, 0), 2) # Zero

\* C4: getNewtonCoefficients returns n values, the k-th being table[0][k] of
\* the divided-difference table of the same points: none for the empty
\* PointSet, [y_0] for a single point.
C4_CoefficientsAreFirstRow ==
    op = "getNewtonCoefficients"
        => /\ Len(result) = n
           /\ \A k \in 0..(n - 1) :
                At(result, k) = At(At(calculateDividedDifferences(points), 0), k)
           /\ n = 0 => result = <<>>
           /\ n = 1 => result = <<yOf(0)>>

\* C4 witness: three coefficients, none of them zero, of points with distinct x.
C4_Witness ==
    /\ op = "getNewtonCoefficients"
    /\ n = 3
    /\ DistinctX(points)
    /\ Len(result) = 3
    /\ \A k \in 0..2 : IsFinite(At(result, k)) /\ At(result, k) # Zero

----------------------------------------------------------------------------
(* C5..C10 *)

\* Polynomials c0 + c1 x + c2 x^2 with small integer coefficients.
Polynomials == (-2..2) \X (-2..2) \X (-2..2)

Degree(c) == IF c[3] # 0 THEN 2 ELSE IF c[2] # 0 THEN 1 ELSE 0

PolynomialValue(c, x) ==
    Add(Num(c[1]), Add(Mul(Num(c[2]), x), Mul(Num(c[3]), Mul(x, x))))

\* Every point of the PointSet lies on the polynomial c.
OnPolynomial(pts, c) ==
    \A k \in 1..Len(pts) : pts[k].y = PolynomialValue(c, pts[k].x)

\* C5: when the points (distinct x) lie on a polynomial of degree d < n-1,
\* every Newton coefficient a_k with k > d is 0 and evaluateNewtonPolynomial
\* returns the polynomial's value at every x; the initial PointSet has the
\* coefficients [4, -3, 1, 0, 0] and the value 2.25 at x = 1.5.
C5_LowDegreeReproduced ==
    /\ (op = "getNewtonCoefficients" /\ DistinctX(points))
         => \A c \in Polynomials :
              (OnPolynomial(points, c) /\ Degree(c) < n - 1)
                 => \A k \in (Degree(c) + 1)..(n - 1) : At(result, k) = Zero
    /\ (op = "evaluateNewtonPolynomial" /\ DistinctX(points))
         => \A c \in Polynomials :
              (OnPolynomial(points, c) /\ Degree(c) < n - 1)
                 => result = PolynomialValue(c, args[1])
    /\ (op = "getNewtonCoefficients" /\ points = InitialPoints)
         => result = <<Num(4), Num(-3), Num(1), Num(0), Num(0)>>
    /\ (op = "evaluateNewtonPolynomial" /\ points = InitialPoints /\ args[1] = Rat(3, 2))
         => result = Rat(9, 4)

\* C5 witness: the initial PointSet, which lies on x^2, evaluated at 1.5.
C5_Witness ==
    /\ op = "evaluateNewtonPolynomial"
    /\ points = InitialPoints
    /\ OnPolynomial(points, <<0, 0, 1>>)
    /\ args[1] = Rat(3, 2)
    /\ result = Rat(9, 4)

\* A second case of C5: three points on a line that is not constant,
\* evaluated off the nodes.
C5_LineReached ==
    /\ op = "evaluateNewtonPolynomial"
    /\ n = 3
    /\ DistinctX(points)
    /\ \E c \in Polynomials : Degree(c) = 1 /\ OnPolynomial(points, c)
    /\ args[1] \notin XsOf(points)

\* C6: hasDuplicateX returns true exactly when two different positions hold
\* equal x; false for the empty and the single-point PointSet.
C6_DuplicateIffSharedX ==
    op = "hasDuplicateX"
        => /\ result = SharesX(points)
           /\ n <= 1 => result = FALSE

\* C6 witness: equal x at the first and the last of three positions, another
\* x between them, and the call returns true.
C6_Witness ==
    /\ op = "hasDuplicateX"
    /\ n = 3
    /\ xOf(0) = xOf(2)
    /\ xOf(0) # xOf(1)
    /\ result = TRUE

\* The injective maps of 1..k onto itself.
IndexPermutations(k) ==
    { f \in [1..k -> 1..k] : \A i \in 1..k, j \in 1..k : f[i] = f[j] => i = j }

Permuted(pts, f) == [k \in 1..Len(pts) |-> pts[f[k]]]

\* Some pair of different positions is closer in x than the threshold.
PairCloserThan(pts, threshold) ==
    \E i \in 1..Len(pts), j \in 1..Len(pts) :
        /\ i # j
        /\ LET d == Sub(pts[i].x, pts[j].x)
           IN  Less(d, threshold) /\ Less(Neg(threshold), d)

\* C7: arePointsTooClose returns true exactly when some pair of different
\* positions has |x_i - x_j| strictly below the threshold; a pair at exactly
\* the threshold does not count, and reordering the points changes nothing.
C7_TooCloseIffPairBelow ==
    op = "arePointsTooClose"
        => /\ result = PairCloserThan(points, args[1])
           /\ (n = 2 /\ MathAbs(Sub(xOf(0), xOf(1))) = args[1]) => result = FALSE
           /\ \A f \in IndexPermutations(n) :
                arePointsTooClose(Permuted(points, f), args[1]) = result

\* C7 witness: x = 1.0 and x = 1.005 under the default threshold.
C7_Witness ==
    /\ op = "arePointsTooClose"
    /\ points = ClosePoints
    /\ args[1] = DefaultThreshold
    /\ result = TRUE

\* A second case of C7: two points exactly a threshold apart.
C7_EdgeReached ==
    /\ op = "arePointsTooClose"
    /\ n = 2
    /\ MathAbs(Sub(xOf(0), xOf(1))) = args[1]
    /\ result = FALSE

\* C8: on the empty PointSet both evaluators return 0, and on a single point
\* (x_0, y_0) both return y_0, whatever the query x.
C8_DegenerateSizes ==
    op \in {"evaluateNewtonPolynomial", "evaluateLagrangePolynomial"}
        => /\ n = 0 => result = Zero
           /\ n = 1 => result = yOf(0)

\* C8 witness: the Lagrange evaluator on a single point, queried away from
\* its x, returns its y.
C8_Witness ==
    /\ op = "evaluateLagrangePolynomial"
    /\ n = 1
    /\ args[1] # xOf(0)
    /\ yOf(0) # Zero
    /\ result = yOf(0)

\* A second case of C8: the Newton evaluator on the empty PointSet.
C8_EmptyReached ==
    /\ op = "evaluateNewtonPolynomial"
    /\ n = 0
    /\ result = Zero

\* C9: with two points of equal x, calculateDividedDifferences still returns
\* its n rows, every entry of the triangle whose divisor x_{i+j} - x_i is zero
\* is non-finite (so at least one entry is), and hasDuplicateX returns true.
C9_DuplicateGivesNonFinite ==
    SharesX(points)
        => /\ op = "calculateDividedDifferences"
                => /\ Len(result) = n
                   /\ \A c \in Triangle :
                        (c[2] >= 1 /\ xOf(c[1] + c[2]) = xOf(c[1]))
                            => ~IsFinite(At(At(result, c[1]), c[2]))
                   /\ \E c \in Triangle : ~IsFinite(At(At(result, c[1]), c[2]))
           /\ op = "hasDuplicateX" => result = TRUE

\* C9 witness: three points, the first and the last sharing x, whose table
\* has a finite first-order entry and a non-finite second-order one.
C9_Witness ==
    /\ op = "calculateDividedDifferences"
    /\ n = 3
    /\ xOf(0) = xOf(2)
    /\ xOf(0) # xOf(1)
    /\ IsFinite(At(At(result, 0), 1))
    /\ ~IsFinite(At(At(result, 0), 2))

\* The i-th abscissa of k evenly spaced samples of [xMin, xMax].
SampleX(xMin, xMax, k, i) == Add(xMin, Div(Mul(Num(i), Sub(xMax, xMin)), Num(k - 1)))

\* The curve of k samples: x_i evenly spaced from xMin to xMax, y_i the
\* Newton polynomial's value at x_i.
IsSampledCurve(curve, xMin, xMax, k) ==
    /\ Len(curve) = k
    /\ \A i \in 0..(k - 1) :
         /\ At(curve, i).x = SampleX(xMin, xMax, k, i)
         /\ At(curve, i).y = evaluateNewtonPolynomial(points, At(curve, i).x)
    /\ At(curve, 0).x = xMin
    /\ At(curve, k - 1).x = xMax

\* C10 as stated: for any PointSet and k >= 2, generatePolynomialCurve returns
\* exactly k pairs, evenly spaced from xMin to xMax.
C10_CurveOfAnyPointSet ==
    (op = "generatePolynomialCurve" /\ args[3] >= 2)
        => IsSampledCurve(result, args[1], args[2], args[3])

\* C10 amended: for a non-empty PointSet and k >= 2, generatePolynomialCurve
\* returns exactly k pairs, the i-th with x = xMin + i*(xMax - xMin)/(k-1) (the
\* first xMin, the last xMax) and y = evaluateNewtonPolynomial(points, x); for
\* the empty PointSet it returns no pair.
C10_CurveOfNonEmptyPointSet ==
    (op = "generatePolynomialCurve" /\ args[3] >= 2)
        => /\ n >= 1 => IsSampledCurve(result, args[1], args[2], args[3])
           /\ n = 0 => result = <<>>

\* C10 witness: three samples of a two-point polynomial over [-1, 2], whose
\* middle sample lies at 1/2.
C10_Witness ==
    /\ op = "generatePolynomialCurve"
    /\ n = 2
    /\ DistinctX(points)
    /\ args = <<Num(-1), Num(2), 3>>
    /\ Len(result) = 3
    /\ At(result, 1).x = Rat(1, 2)
    /\ At(result, 0).y # At(result, 2).y

\* The case C10 as stated misses: a curve requested for the empty PointSet.
C10_EmptyReached ==
    /\ op = "generatePolynomialCurve"
    /\ n = 0
    /\ args[3] >= 2
    /\ result = <<>>

----------------------------------------------------------------------------
(* C11 .. C20: the formatter and the cells, the views, the handlers *)

\* C11 as stated: during one generatePolynomialCurve call the divided-
\* difference table is constructed exactly once, whatever the number of
\* samples.
C11_TableBuiltOnce ==
    op = "generatePolynomialCurve" => tableBuilds = 1

\* What the source does in place of C11: every sample constructs the table
\* again, k constructions for k samples of a non-empty PointSet.
C11_TableBuiltPerSample ==
    (op = "generatePolynomialCurve" /\ n >= 1) => tableBuilds = args[3]

\* A curve of three samples that constructed three tables.
C11_ThreeBuildsReached ==
    /\ op = "generatePolynomialCurve"
    /\ n = 5
    /\ args[3] = 3
    /\ Len(result) = 3
    /\ tableBuilds = 3

\* The number of points of the PointSet with an x smaller than that of point k.
RankOf(k) == Cardinality({ m \in 0..(n - 1) : Less(xOf(m), xOf(k)) })

\* No point of the sequence has a smaller x than the point before it.
Ascending(pts) == \A k \in 1..(Len(pts) - 1) : ~Less(pts[k + 1].x, pts[k].x)

\* C12 as stated: for points supplied in any order (distinct x),
\* calculateDividedDifferences seeds column 0 in ascending-x order:
\* table[i][0] is the y of the point with the i-th smallest x.
C12_SeedsInAscendingX ==
    (op = "calculateDividedDifferences" /\ DistinctX(points))
        => \A k \in 0..(n - 1) : At(At(result, RankOf(k)), 0) = yOf(k)

\* C12 amended: calculateDividedDifferences does not sort; it seeds column 0
\* in the order the points are supplied, table[i][0] = y of the i-th supplied
\* point.  The sorting is the callers': the table view and the formula view
\* pass the engine a PointSet ascending in x, so the first value the table
\* view displays in row i is the y of the i-th smallest visible x.
C12_SeedsInSuppliedOrder ==
    /\ op = "calculateDividedDifferences"
         => \A i \in 0..(n - 1) : At(At(result, i), 0) = yOf(i)
    /\ Ascending(view.table.passed[1])
    /\ Ascending(view.formula.passed[1])
    /\ \A i \in 1..Len(view.table.rows) :
         view.table.rows[i][1] = ValueCell(view.table.passed[1][i].y)

\* C12 witness: a table of three points with distinct x supplied in another
\* order than that of their x, whose column 0 is in the supplied order while
\* the table view displays the y values in the order of x.
C12_Witness ==
    /\ op = "calculateDividedDifferences"
    /\ n = 3
    /\ DistinctX(points)
    /\ Less(xOf(1), xOf(0))
    /\ yOf(0) # yOf(1)
    /\ At(At(result, 0), 0) = yOf(0)
    /\ view.table.rows[1][1] # ValueCell(yOf(0))
    /\ Len(view.table.rows) = 3

\* The exported functions of math.ts.
EngineFunctions ==
    { "calculateDividedDifferences", "evaluateNewtonPolynomial",
      "generatePolynomialCurve", "evaluateLagrangePolynomial",
      "formatNewtonPolynomial", "getNewtonCoefficients", "hasDuplicateX",
      "arePointsTooClose", "getDividedDifferenceCells" }

Coefficient(i) == At(getNewtonCoefficients(points), i)

\* |a| >= 1e-10; false of NaN, as every comparison with NaN.
AtLeastEpsilon(a) == ~IsNaN(a) /\ ~BelowEpsilon(a)

\* The term of a_i with its i factors, for x_0 .. x_{i-1}, as its pieces.
TermOf(i) ==
    <<SignedCoefficient(Coefficient(i))>> \o [j \in 1..i |-> Factor(xOf(j - 1))]

\* formatNewtonPolynomial has emitted the constant term and then, in the
\* order of i, exactly the terms of the indices in `emitted`, each with its
\* own i factors.
EmitsTerms(emitted) ==
    /\ n = 0 => result.text = "P(x) = 0"
    /\ n = 1 => result.text = "P(x) = " \o ToFixed(yOf(0), 4)
    /\ n >= 2 =>
         /\ Len(result.terms) = 1 + Cardinality(emitted)
         /\ result.terms[1] = <<ToFixed(Coefficient(0), 4)>>
         /\ \A i \in emitted :
              LET position == 1 + Cardinality({ e \in emitted : e <= i })
              IN  /\ position <= Len(result.terms)
                  /\ result.terms[position] = TermOf(i)
                  /\ Len(result.terms[position]) = 1 + i
         /\ result.text =
              "P(x) = " \o Join([k \in 1..Len(result.terms) |-> Concat(result.terms[k])], " ")

\* C14 as stated: formatNewtonPolynomial always emits a_0 and, for i >= 1,
\* the term of a_i if and only if |a_i| >= 1e-10; an emitted term i carries
\* exactly the i factors of x_0 .. x_{i-1}.
C14_EmitsIffAtLeastEpsilon ==
    op = "formatNewtonPolynomial"
        => EmitsTerms({ i \in 1..(n - 1) : AtLeastEpsilon(Coefficient(i)) })

\* C14 amended: formatNewtonPolynomial always emits a_0 and, for i >= 1, the
\* term of a_i unless |a_i| < 1e-10: a NaN coefficient (coincident points) is
\* emitted too, |NaN| < 1e-10 being false.  An emitted term i carries exactly
\* the i factors of x_0 .. x_{i-1}, whatever terms were omitted before it.
C14_EmitsUnlessBelowEpsilon ==
    op = "formatNewtonPolynomial"
        => EmitsTerms({ i \in 1..(n - 1) : ~BelowEpsilon(Coefficient(i)) })

\* C14 witness: three points with distinct x whose a_1 is zero and a_2 is
\* not: the term of a_1 is omitted and the term of a_2, the second emitted,
\* has its two factors.
C14_Witness ==
    /\ op = "formatNewtonPolynomial"
    /\ n = 3
    /\ DistinctX(points)
    /\ BelowEpsilon(Coefficient(1))
    /\ ~BelowEpsilon(Coefficient(2))
    /\ Len(result.terms) = 2
    /\ Len(result.terms[2]) = 3
    /\ result.terms[2][2] = Factor(xOf(0))
    /\ result.terms[2][3] = Factor(xOf(1))

\* The case C14 as stated misses: the same point twice, whose a_1 = 0 / 0 is
\* NaN and is emitted.
C14_NaNReached ==
    /\ op = "formatNewtonPolynomial"
    /\ n = 2
    /\ IsNaN(Coefficient(1))
    /\ result.text = "P(x) = 2.0000 NaN(x - 1.00)"

\* C15: getDividedDifferenceCells returns no row for the empty PointSet and
\* otherwise n rows, row i with exactly n - i cells; the cell of row i and
\* column j has value table[i][j], level j, rowIndex i and the label f[x<i>]
\* for j = 0, f[x<i>,...,x<i+j>] otherwise (the field `formula`).
C15_CellsAreTheTriangle ==
    op = "getDividedDifferenceCells"
        => /\ n = 0 => result = <<>>
           /\ Len(result) = n
           /\ \A i \in 0..(n - 1) :
                /\ Len(At(result, i)) = n - i
                /\ \A j \in 0..(n - 1 - i) :
                     LET cell == At(At(result, i), j)
                     IN  /\ cell.value = At(At(calculateDividedDifferences(points), i), j)
                         /\ cell.level = j
                         /\ cell.rowIndex = i
                         /\ j = 0 => cell.formula = "f[x" \o ToString(i) \o "]"
                         /\ j > 0 => cell.formula =
                              "f[x" \o ToString(i) \o ",...,x" \o ToString(i + j) \o "]"

\* C15 witness: the cells of three points with distinct x: rows of 3, 2 and 1
\* cells, the last cell of row 0 labelled f[x0,...,x2] with a value that is
\* finite and not zero.
C15_Witness ==
    /\ op = "getDividedDifferenceCells"
    /\ n = 3
    /\ DistinctX(points)
    /\ Len(At(result, 0)) = 3
    /\ Len(At(result, 1)) = 2
    /\ Len(At(result, 2)) = 1
    /\ At(At(result, 0), 2).formula = "f[x0,...,x2]"
    /\ At(At(result, 1), 0).formula = "f[x1]"
    /\ IsFinite(At(At(result, 0), 2).value)
    /\ At(At(result, 0), 2).value # Zero

\* The number of cells of a displayed row that show a value.
ValueCells(row) == Cardinality({ k \in 1..Len(row) : row[k].kind = "value" })

\* C16 as stated: the table shown is triangular: with m visible points, row i
\* displays exactly m - i value cells, its first, and every remaining cell of
\* the row is empty.
C16_DisplayedTableIsTriangular ==
    LET rows == view.table.rows
        m == Len(rows)
    IN  \A i \in 0..(m - 1) :
            /\ ValueCells(At(rows, i)) = m - i
            /\ \A k \in 1..Len(At(rows, i)) :
                 At(rows, i)[k].kind = "value" <=> k <= m - i

\* What the source displays in place of C16: every row shows all m entries of
\* its row of the m x m table, the entries outside the triangle as the 0.0000
\* the table was filled with, and row i ends with i empty cells more.
C16_DisplayedTableIsSquare ==
    LET rows == view.table.rows
        m == Len(rows)
    IN  \A i \in 0..(m - 1) :
            /\ Len(At(rows, i)) = m + i
            /\ \A k \in 1..m : At(rows, i)[k].kind = "value"
            /\ \A k \in (m - i + 1)..m : At(rows, i)[k].text = "0.0000"
            /\ \A k \in (m + 1)..(m + i) : At(rows, i)[k] = EmptyCell

\* A table of three visible rows during the animation whose last row shows
\* one divided difference, two zeros and two empty cells.
C16_SquareReached ==
    /\ n = 5
    /\ Less(animationProgress, One)
    /\ Len(view.table.rows) = 3
    /\ ValueCells(view.table.rows[3]) = 3
    /\ Len(view.table.rows[3]) = 5
    /\ view.table.rows[3][2].text = "0.0000"

\* Every record of the sequence has the three fields of a Point.
Complete(pts) == \A k \in 1..Len(pts) : DOMAIN pts[k] = {"x", "y", "id"}

\* C17 as stated: malformed imported data never becomes the PointSet and is
\* never passed to the engine: the initial points, the clicked, preset and
\* random points are complete records, so the PointSet, and every PointSet a
\* view passes to the engine, holds records with x, y and id only.
C17_MalformedNeverStored ==
    /\ Complete(points)
    /\ \A k \in 1..Len(view.table.passed) : Complete(view.table.passed[k])
    /\ \A k \in 1..Len(view.graph.passed) : Complete(view.graph.passed[k])
    /\ \A k \in 1..Len(view.formula.passed) : Complete(view.formula.passed[k])

\* An imported array with a record that has no id has become the PointSet,
\* the views have passed it to the engine, and the engine is called with it.
C17_NoIdReached ==
    /\ op = "calculateDividedDifferences"
    /\ points = NoIdPoints
    /\ ~Complete(points)
    /\ view.table.passed = <<NoIdPoints>>
    /\ view.graph.passed = <<NoIdPoints>>
    /\ Len(result) = 2

\* The elements of a sequence.
Range(s) == { s[k] : k \in 1..Len(s) }

\* C18: in every state, whatever PointSet changes led to it, the displayed
\* warnings are those of the current PointSet: the duplicate-x warning is
\* shown exactly when two positions share an x, the too-close warning exactly
\* when two positions are closer in x than 0.01, and nothing else is shown.
C18_WarningsOfCurrentPointSet ==
    /\ ("Duplicate x-values detected!" \in Range(view.warnings)) <=> SharesX(points)
    /\ ("Some points are very close together." \in Range(view.warnings))
           <=> PairCloserThan(points, DefaultThreshold)
    /\ Range(view.warnings) \subseteq
           {"Duplicate x-values detected!", "Some points are very close together."}

\* A PointSet change has put in place points that share an x, and both
\* warnings are displayed.
C18_Witness ==
    /\ points # InitialPoints
    /\ SharesX(points)
    /\ view.warnings = <<"Duplicate x-values detected!", "Some points are very close together.">>

\* A PointSet change has put in place points closer than 0.01 with distinct
\* x, and only the too-close warning is displayed.
C18_OnlyCloseReached ==
    /\ DistinctX(points)
    /\ view.warnings = <<"Some points are very close together.">>

\* How many positions of the sequence hold the record.
Count(s, r) == Cardinality({ k \in 1..Len(s) : s[k] = r })

\* v holds the first ceil(n * p) points of pts in ascending x: its length is
\* the least integer not below n * p, it is ascending, its records are taken
\* from pts, and no record of pts left out has a smaller x than one taken.
IsVisiblePrefix(v, pts, p) ==
    /\ Len(v) \in 0..Len(pts)
    /\ Len(v) * p[2] >= Len(pts) * p[1]
    /\ (Len(v) - 1) * p[2] < Len(pts) * p[1]
    /\ Ascending(v)
    /\ \A r \in Range(v) : Count(v, r) <= Count(pts, r)
    /\ \A r \in Range(pts) :
           Count(v, r) < Count(pts, r) => \A k \in 1..Len(v) : ~Less(r.x, v[k].x)

\* C19: at every progress, the table and the formula display each pass to
\* the engine one PointSet, the graph passes none (fewer than two visible
\* points), one or two (with the Lagrange curve), and every PointSet passed
\* is the first ceil(n * p) points of the PointSet in ascending x, the same
\* in the three views and the one the graph draws as markers; a step that
\* only advances or resets the animation, or toggles the Lagrange curve,
\* leaves the stored PointSet as it is.
C19_ViewsPassVisiblePrefix ==
    /\ [](/\ Len(view.table.passed) = 1
          /\ Len(view.formula.passed) = 1
          /\ IsVisiblePrefix(view.table.passed[1], points, animationProgress)
          /\ view.formula.passed[1] = view.table.passed[1]
          /\ view.graph.markers = view.table.passed[1]
          /\ \A k \in 1..Len(view.graph.passed) :
                 view.graph.passed[k] = view.table.passed[1]
          /\ Len(view.graph.passed) =
                 IF Len(view.table.passed[1]) < 2 THEN 0
                 ELSE IF showLagrange THEN 2 ELSE 1)
    /\ [][(animation' # animation \/ showLagrange' # showLagrange)
              => points' = points]_vars

\* The animation is under way on a PointSet stored out of x order: the
\* views pass a proper, non-empty, ascending prefix.
C19_Witness ==
    /\ Less(Zero, animationProgress) /\ Less(animationProgress, One)
    /\ ~Ascending(points)
    /\ Len(view.table.passed[1]) \in 1..(Len(points) - 1)
    /\ Len(view.graph.passed) >= 1

\* C20 as stated: after a double-click on a point of the PointSet, the
\* PointSet no longer contains that point.
C20_DoubleClickRemoves ==
    op = "doubleClick" => args[1] \notin Range(points)

\* What the handlers do: the two clicks of a double-click on a point find the
\* point in place and leave the PointSet with it, as displayed before.
C20_DoubleClickKeeps ==
    op = "doubleClick" =>
        /\ args[1] \in Range(points)
        /\ args[1] \in Range(view.graph.markers)

\* A double-click on the point (0, 0) of the initial PointSet has been
\* handled and the five points are in place.
C20_KeptReached ==
    /\ op = "doubleClick"
    /\ args[1].x = Zero /\ args[1].y = Zero
    /\ points = InitialPoints

----------------------------------------------------------------------------
(* C21 .. C26: the clicks, the animation, the order of the points *)

\* Some point of the sequence is within 0.1 of (cx, cy) in both coordinates.
Near(pts, cx, cy) ==
    \E k \in 1..Len(pts) :
        LET dx == Sub(pts[k].x, cx)
            dy == Sub(pts[k].y, cy)
        IN  /\ Less(dx, Rat(1, 10)) /\ Less(Rat(-1, 10), dx)
            /\ Less(dy, Rat(1, 10)) /\ Less(Rat(-1, 10), dy)

\* The step is a click at the location, handled by handleClick.
ClickedAt(click) ==
    /\ op = "idle"
    /\ Len(points) < MaxN
    /\ OnGrid(points)
    /\ points' = handleClick(points, click[1], click[2])

\* C21: a click at (cx, cy) leaves the PointSet unchanged when some point is
\* within 0.1 of it in both coordinates, and otherwise appends to its end
\* one point (cx, cy) with an id no other point has; either way the points
\* there were stay in place, so the count never decreases.
C21_ClickAppendsUnlessNear ==
    [][\A click \in ClickLocations :
          ClickedAt(click) =>
              /\ Len(points') >= Len(points)
              /\ SubSeq(points', 1, Len(points)) = points
              /\ IF Near(points, click[1], click[2])
                 THEN points' = points
                 ELSE /\ Len(points') = Len(points) + 1
                      /\ points'[Len(points')].x = click[1]
                      /\ points'[Len(points')].y = click[2]
                      /\ \A k \in 1..Len(points) :
                             points[k].id # points'[Len(points')].id]_vars

\* Clicks have added, after (-1, 2) and (-1, 0), the point (-0.9, 0), which
\* is exactly 0.1 from the second in x; the point added last has the
\* smallest y and is last.
C21_Witness ==
    /\ Len(points) = 3
    /\ points[1].x = Num(-1) /\ points[1].y = Num(2)
    /\ points[2].x = Num(-1) /\ points[2].y = Num(0)
    /\ points[3].x = Rat(-9, 10) /\ points[3].y = Num(0)
    /\ points[3].id \notin {points[1].id, points[2].id}

\* A click has added (-0.95, 0) beside (-1, 2): near in x only.
C21_NearInXOnlyReached ==
    /\ Len(points) = 2
    /\ points[1].x = Num(-1) /\ points[1].y = Num(2)
    /\ points[2].x = Rat(-19, 20) /\ points[2].y = Num(0)

\* C22: in every state reached by ticks, Play/Pause, Reset, speed changes
\* and PointSet changes, the progress is a number between 0 and 1, both
\* included, and while the animation is playing it is below 1.
C22_ProgressInUnitInterval ==
    /\ animationProgress[2] > 0
    /\ 0 <= animationProgress[1]
    /\ animationProgress[1] <= animationProgress[2]
    /\ isPlaying => animationProgress[1] < animationProgress[2]

\* The animation is playing at the highest speed on a PointSet put in place
\* after the start, one tick of 0.06 before its end.
C22_Witness ==
    /\ isPlaying
    /\ points # InitialPoints
    /\ animationSpeed = Num(3)
    /\ animationProgress = Rat(24, 25)

\* C23: in a run left to itself (nobody presses Play/Pause or Reset while
\* the animation is playing, and the PointSet stays non-empty), with the
\* timer ticking fairly, a playing animation leads to progress exactly 1
\* with the animation stopped; progress becomes 1 only in a step that also
\* stops the animation; and once the animation is stopped no tick changes
\* progress: it changes only by being set to 0.
C23_RunCompletes ==
    /\ isPlaying ~> (animationProgress = One /\ ~isPlaying)
    /\ [][(animationProgress # One /\ animationProgress' = One)
              => (isPlaying /\ ~isPlaying')]_vars
    /\ [][(~isPlaying /\ animationProgress' # animationProgress)
              => animationProgress' = Zero]_vars

\* The animation is playing at speed 1, one tick of 0.02 before its end.
C23_Witness ==
    /\ isPlaying
    /\ Len(points) # 0
    /\ animationSpeed = One
    /\ animationProgress = Rat(49, 50)

\* C24: a step that is a press of Play/Pause sets progress to 0 and starts
\* the animation when progress is 1 or more, and otherwise flips isPlaying
\* and leaves progress; a step that is a press of Reset gives progress 0
\* with the animation stopped; progress changes to a value other than 0
\* (by a tick) only from a state where the animation is playing and the
\* PointSet is not empty; and a step that changes the PointSet, the speed or
\* the Lagrange option leaves progress and isPlaying as they are.
C24_ControlsOfTheAnimation ==
    [][/\ HandlePlayPause =>
              IF animationProgress[1] >= animationProgress[2]
              THEN animationProgress' = Zero /\ isPlaying' = TRUE
              ELSE isPlaying' = ~isPlaying /\ animationProgress' = animationProgress
       /\ HandleReset => (animationProgress' = Zero /\ isPlaying' = FALSE)
       /\ (animationProgress' # animationProgress /\ animationProgress' # Zero)
              => (isPlaying /\ Len(points) # 0)
       /\ (points' # points \/ animationSpeed' # animationSpeed
               \/ showLagrange' # showLagrange)
              => (animationProgress' = animationProgress /\ isPlaying' = isPlaying)
      ]_vars

\* The animation has been paused half way, on a PointSet put in place after
\* the start, at speed 3 and with the Lagrange curve shown.
C24_Witness ==
    /\ ~isPlaying
    /\ animationProgress = Rat(1, 2)
    /\ points # InitialPoints
    /\ animationSpeed = Num(3)
    /\ showLagrange

\* s is the beginning of t.
IsPrefix(s, t) == Len(s) <= Len(t) /\ SubSeq(t, 1, Len(s)) = s

\* The points the table view shows.
Revealed == view.table.passed[1]

\* C25: the views show no point at progress 0 and all n points at progress
\* 1; and across every tick, which leaves the PointSet as it is, progress
\* does not decrease, the number of visible points does not decrease, and
\* the points visible before the tick are the beginning of the points
\* visible after it, which are in ascending x.
C25_RevealIsProgressive ==
    /\ [](/\ animationProgress = Zero => Len(Revealed) = 0
          /\ animationProgress = One => Len(Revealed) = Len(points))
    /\ [][Tick =>
              /\ points' = points
              /\ animationProgress[1] * animationProgress'[2]
                     <= animationProgress'[1] * animationProgress[2]
              /\ Len(Revealed) <= Len(Revealed')
              /\ IsPrefix(Revealed, Revealed')
              /\ Ascending(Revealed')]_vars

\* Half way through a run on three points stored out of x order, two are
\* visible, the one with the smallest x first.
C25_Witness ==
    /\ isPlaying
    /\ points = LinePoints
    /\ animationProgress = Rat(1, 2)
    /\ Len(Revealed) = 2
    /\ Revealed[1].x = Num(-1) /\ Revealed[2].x = Num(1)

\* The sequence from its last element to its first.
Reversed(pts) == [k \in 1..Len(pts) |-> pts[Len(pts) + 1 - k]]

\* The evaluator the state's call is of, applied to other points.
Evaluated(pts) ==
    IF op = "evaluateNewtonPolynomial"
    THEN evaluateNewtonPolynomial(pts, args[1])
    ELSE evaluateLagrangePolynomial(pts, args[1])

\* C26: for a PointSet with pairwise distinct x, the value either evaluator
\* returns at a query x is the value it returns for the same points passed
\* in any other order: in reversed order and in ascending x for every
\* PointSet, and in every permutation for PointSets of up to the size of
\* the initial one.
C26_ValueIndependentOfOrder ==
    (op \in {"evaluateNewtonPolynomial", "evaluateLagrangePolynomial"}
         /\ DistinctX(points))
        => /\ Evaluated(Reversed(points)) = result
           /\ Evaluated(sortedPoints(points)) = result
           /\ n <= Len(InitialPoints)
                => \A f \in IndexPermutations(n) :
                       Evaluated(Permuted(points, f)) = result

\* A Newton evaluation of three points with distinct x, stored out of x
\* order, at a query that is no node: the coefficient vector of the points
\* in ascending x is another one, and the value is the same.
C26_Witness ==
    /\ op = "evaluateNewtonPolynomial"
    /\ n = 3
    /\ DistinctX(points)
    /\ ~Ascending(points)
    /\ args[1] \notin XsOf(points)
    /\ getNewtonCoefficients(sortedPoints(points)) # getNewtonCoefficients(points)
    /\ evaluateNewtonPolynomial(sortedPoints(points), args[1]) = result
    /\ result # Zero

\* The same for a Lagrange evaluation of the five initial points reversed.
C26_LagrangeReached ==
    /\ op = "evaluateLagrangePolynomial"
    /\ points = InitialPoints
    /\ args[1] = Rat(1, 2)
    /\ evaluateLagrangePolynomial(Reversed(points), args[1]) = result
    /\ result = Rat(1, 4)

====
